---- MODULE Spec2Model ----
(***************************************************************************)
(* Model of the OpenNN train/test pipeline                                 *)
(*   src/opennn_pytorch/algo/traintest.py  (train, test)                   *)
(*   src/opennn/metrics/accuracy.py        (accuracy.calc)                 *)
(*                                                                         *)
(* A run is one call of train or test.  The file system is shared by the   *)
(* runs: two parent directories (checkpoints, logs) holding numbered run   *)
(* directories, checkpoint files and log files.  Every real number is an   *)
(* exact fraction [num, den]; a directory entry name is a sequence of      *)
(* characters; a file name is a tuple of its formatted fields.             *)
(***************************************************************************)
EXTENDS Integers, Sequences, FiniteSets, TLC

(***************************************************************************)
(* Bounds of the model.                                                    *)
(***************************************************************************)
MaxEpochs == 3
MaxBatches == 2
MaxWork == 4
MaxSaveEvery == 3
MaxMetrics == 2
Unit == 4
MaxSamples == 2
MaxClasses == 2

(***************************************************************************)
(* Program constants.                                                      *)
(***************************************************************************)
BestLossInit == 99999999

Runs == {1, 2}
Parents == {"checkpoints", "logs"}

(***************************************************************************)
(* Directory entry names: int(name) and the f-string '{id}'.               *)
(***************************************************************************)
Digits == <<"0", "1", "2", "3", "4", "5", "6", "7", "8", "9">>

IsDigit(c) == \E i \in 1..10 : Digits[i] = c

DigitVal(c) == (CHOOSE i \in 1..10 : Digits[i] = c) - 1

IsIntName(s) == Len(s) > 0 /\ \A i \in 1..Len(s) : IsDigit(s[i])

RECURSIVE IntOf(_)
IntOf(s) ==
    IF Len(s) = 0 THEN 0
    ELSE IntOf(SubSeq(s, 1, Len(s) - 1)) * 10 + DigitVal(s[Len(s)])

RECURSIVE StrOf(_)
StrOf(n) ==
    IF n < 10 THEN <<Digits[n + 1]>>
    ELSE StrOf(n \div 10) \o <<Digits[(n % 10) + 1]>>

SetMax(S) == CHOOSE x \in S : \A y \in S : y <= x

\* list(map(int, os.listdir(parent))) raises ValueError on a non-integer name
ListingOk(entries) == \A s \in entries : IsIntName(s)

\* a slip: the number of entries instead of the largest id plus one
NextIdCount(entries) == Cardinality(entries)

\* max(folder) + 1 if folder != [] else 0
NextId(entries) ==
    IF entries # {} THEN SetMax({IntOf(s) : s \in entries}) + 1 ELSE 0

\* a variant that accepts an existing directory (exist_ok=True)
MkdirExistOk(entries, name) == TRUE

\* os.mkdir(path) raises FileExistsError when the path exists
MkdirOk(entries, name) == name \notin entries

(***************************************************************************)
(* Real numbers as exact fractions, and the '{:.2f}' format.               *)
(***************************************************************************)
Frac(n, d) == [num |-> n, den |-> d]

Whole(f) == f.num \div f.den

Rem(f) == f.num % f.den

FracLess(a, b) ==
    \/ Whole(a) < Whole(b)
    \/ Whole(a) = Whole(b) /\ Rem(a) * b.den < Rem(b) * a.den

FracEq(a, b) == Whole(a) = Whole(b) /\ Rem(a) * b.den = Rem(b) * a.den

\* round-half-even of n/d for n, d >= 0
RoundHalfEven(n, d) ==
    LET q == n \div d
        r == n % d
    IN  IF 2 * r > d \/ (2 * r = d /\ q % 2 = 1) THEN q + 1 ELSE q

\* '{:.2f}'.format(f) as <<integer part, hundredths>>
Fmt2(f) ==
    LET c == RoundHalfEven(100 * Rem(f), f.den)
    IN  IF c = 100 THEN <<Whole(f) + 1, 0>> ELSE <<Whole(f), c>>

(***************************************************************************)
(* Collaborators: the batches a data loader yields, the loss of a batch    *)
(* and the value of a metric on it, in units of 1/Unit.                    *)
(***************************************************************************)
MetricNames == <<"accuracy", "precision", "recall", "f1_score">>

TrainBatches == {"easy", "hard"}
ValidBatches == {"easy", "hard", "diverged"}
TestBatches == {"easy", "hard"}

\* loss_fn(model(imgs), labels).item()
LossOf(b) ==
    CASE b = "easy" -> 1
      [] b = "hard" -> 2
      [] b = "diverged" -> BestLossInit * Unit

\* metric.calc(preds, labels)
MetricOf(m, b) ==
    CASE b = "easy" -> Unit
      [] b = "hard" -> IF m = "accuracy" THEN 0 ELSE 1
      [] b = "diverged" -> 0

VARIABLES
    dirs,               \* parent -> set of entry names
    ckpts,              \* checkpoint files: [dir, name, weights]
    logfiles,           \* log files: [dir, name, text]
    args,               \* run -> arguments of the call
    pc,                 \* run -> position in train / test
    err,                \* run -> exception that ended the run, or "none"
    checkpoints_folder, \* run -> id computed for the checkpoint directory
    logs_folder,        \* run -> id computed for the log directory
    epoch, best_loss, best_epoch,
    train_loss, valid_loss, train_mvct, valid_mvct,
    test_loss, test_mvct,
    batch,              \* run -> batches consumed in the current pass
    weights,            \* run -> number of optimizer.step() calls so far
    sched,              \* run -> number of scheduler.step() calls so far
    retval,             \* run -> value returned by test
    seen,               \* history: batches drawn in the current epoch / test pass
    hist,               \* history: one record per epoch that reached its checkpoint decision
    created,            \* history: run directories the run created
    wrote,              \* history: run directories the run wrote a file into
    existed,            \* history: run directories present when the run started
    a_preds, a_labels, a_out, a_pc   \* accuracy.calc: inputs, result, position

fsVars == <<dirs, ckpts, logfiles>>
allocVars == <<checkpoints_folder, logs_folder>>
trainVars == <<epoch, best_loss, best_epoch, train_loss, valid_loss, train_mvct, valid_mvct>>
testVars == <<test_loss, test_mvct, retval>>
stepVars == <<batch, weights, sched>>
histVars == <<seen, hist, created, wrote, existed>>
accVars == <<a_preds, a_labels, a_out, a_pc>>
runVars == <<args, pc, err, allocVars, trainVars, testVars, stepVars, histVars>>
vars == <<fsVars, runVars, accVars>>

(***************************************************************************)
(* File-system operations.                                                 *)
(***************************************************************************)
\* the run directories present under the parents
AllRunDirs(d) == UNION {{<<p, s>> : s \in d[p]} : p \in Parents}

\* torch.save(state_dict, dir + '/' + name): creates or overwrites the file
SaveFile(files, dir, name, w) ==
    {f \in files : ~(f.dir = dir /\ f.name = name)}
        \cup {[dir |-> dir, name |-> name, weights |-> w]}

FileExists(files, dir, name) == \E f \in files : f.dir = dir /\ f.name = name

\* os.rename(dir + '/' + src, dir + '/' + dst): moves the file, replacing dst
RenameFile(files, dir, src, dst) ==
    LET old == CHOOSE f \in files : f.dir = dir /\ f.name = src
    IN  {f \in files : ~(f.dir = dir /\ (f.name = src \/ f.name = dst))}
            \cup {[dir |-> dir, name |-> dst, weights |-> old.weights]}

\* with open(dir + '/' + name, 'a') as in_f: in_f.write(text)
AppendFile(files, dir, name, text) ==
    IF \E f \in files : f.dir = dir /\ f.name = name
    THEN {IF f.dir = dir /\ f.name = name
          THEN [f EXCEPT !.text = f.text \o text] ELSE f : f \in files}
    ELSE files \cup {[dir |-> dir, name |-> name, text |-> text]}

\* file names of the checkpoint directory
PlanName(e, loss) == <<"plan", e, Fmt2(loss)[1], Fmt2(loss)[2]>>
BestTmpName == <<"best">>
BestName(e, loss) == <<"best", e, Fmt2(loss)[1], Fmt2(loss)[2]>>

(***************************************************************************)
(* Log text: a sequence of 'label: value ' fields and line ends.           *)
(***************************************************************************)
Tok(pre, name, f) == [pre |-> pre, name |-> name, num |-> f.num, den |-> f.den]

NL == Tok("\n", "", Frac(0, 1))

\* train_str of train
TrainStr(names, mvct) ==
    [i \in 1..Len(mvct) |-> Tok("train_", names[i], mvct[i])]

\* valid_str of train: the line end is part of the last metric's field
ValidStr(names, mvct) ==
    [i \in 1..Len(mvct) |-> Tok("valid_", names[i], mvct[i])]
        \o (IF Len(mvct) > 0 THEN <<NL>> ELSE <<>>)

\* test_str of test
TestStr(names, mvct) ==
    [i \in 1..Len(mvct) |-> Tok("", names[i], mvct[i])]
        \o (IF Len(mvct) > 0 THEN <<NL>> ELSE <<>>)

\* the text train writes for one epoch
EpochText(e, epochs, tl, vl, names, tm, vm) ==
    <<Tok("epoch", "", Frac(e + 1, epochs)), Tok("train loss", "", tl),
      Tok("valid loss", "", vl)>> \o TrainStr(names, tm) \o ValidStr(names, vm)

\* the text test writes
TestText(tl, names, tm) == <<Tok("test loss", "", tl)>> \o TestStr(names, tm)

(***************************************************************************)
(* Pieces of the epoch body.                                               *)
(***************************************************************************)
\* [0.0] * len(metrics)
ZeroMvct(metrics) == [i \in 1..Len(metrics) |-> Frac(0, Unit)]

\* for mi, metric in enumerate(metrics): mvct[mi] += metric.calc(preds, labels)
AddMetrics(mvct, metrics, b) ==
    [i \in 1..Len(metrics) |-> Frac(mvct[i].num + MetricOf(metrics[i], b), mvct[i].den)]

\* loss += loss.item()
AddLoss(loss, b) == Frac(loss.num + LossOf(b), loss.den)

\* np.array(mvct) / len(dataloader)
DivMvct(mvct, n) == [i \in 1..Len(mvct) |-> Frac(mvct[i].num, mvct[i].den * n)]

\* loss /= len(dataloader)
DivLoss(loss, n) == Frac(loss.num, loss.den * n)

\* len(train_dataloader) and len(valid_dataloader) as used in the averaging
TrainLen(a) == a.nTrain

\* a slip: the validation sums divided by the length of the training loader
ValidLenOfTrain(a) == a.nTrain

ValidLen(a) == a.nValid

\* a slip: the final epoch is not saved unless save_every divides it
PeriodicOnly(e, save_every, epochs) == e % save_every = 0

\* epoch % save_every == 0 or epoch == epochs - 1
Periodic(e, save_every, epochs) == e % save_every = 0 \/ e = epochs - 1

\* a slip: <= in place of <, so a tie replaces the best checkpoint
ImprovedOrTied(vl, bl) == ~FracLess(bl, vl)

\* valid_loss < best_loss
Improved(vl, bl) == FracLess(vl, bl)

CkptDir(r) == <<args[r].checkpoints, StrOf(checkpoints_folder[r])>>
LogDir(r) == <<args[r].logs, StrOf(logs_folder[r])>>

Fail(r, e) == pc' = [pc EXCEPT ![r] = "failed"] /\ err' = [err EXCEPT ![r] = e]
Goto(r, l) == pc' = [pc EXCEPT ![r] = l] /\ UNCHANGED err

(***************************************************************************)
(* Run-directory allocation: the prologue of train and of test.            *)
(***************************************************************************)
\* a variant that skips the names int() rejects instead of raising
ListingSkipsJunk(entries) ==
    [ok |-> TRUE, id |-> NextId({s \in entries : IsIntName(s)})]

\* folder = list(map(int, os.listdir(parent)))
\* folder = max(folder) + 1 if folder != [] else 0
Listing(entries) ==
    IF ListingOk(entries) THEN [ok |-> TRUE, id |-> NextId(entries)]
    ELSE [ok |-> FALSE, id |-> -1]

\* train, lines 56-57
ListCheckpoints(r) ==
    /\ pc[r] = "start" /\ args[r].fn = "train"
    /\ LET l == Listing(dirs[args[r].checkpoints])
       IN  IF l.ok
           THEN /\ checkpoints_folder' = [checkpoints_folder EXCEPT ![r] = l.id]
                /\ Goto(r, "mkdir_ckpt")
           ELSE /\ Fail(r, "ValueError")
                /\ UNCHANGED checkpoints_folder
    /\ existed' = [existed EXCEPT ![r] = AllRunDirs(dirs)]
    /\ UNCHANGED <<fsVars, args, logs_folder, trainVars, testVars, stepVars,
                   seen, hist, created, wrote, accVars>>

\* train, lines 58-59
MkdirCheckpoints(r) ==
    /\ pc[r] = "mkdir_ckpt"
    /\ LET p == args[r].checkpoints
           name == StrOf(checkpoints_folder[r])
       IN  IF MkdirOk(dirs[p], name)
           THEN /\ dirs' = [dirs EXCEPT ![p] = @ \cup {name}]
                /\ created' = [created EXCEPT ![r] = @ \cup {<<p, name>>}]
                /\ Goto(r, "list_logs")
           ELSE /\ Fail(r, "FileExistsError")
                /\ UNCHANGED <<dirs, created>>
    /\ UNCHANGED <<ckpts, logfiles, args, allocVars, trainVars, testVars, stepVars,
                   seen, hist, wrote, existed, accVars>>

\* train, lines 61-62; test, lines 188-189
ListLogs(r) ==
    /\ \/ pc[r] = "list_logs"
       \/ pc[r] = "start" /\ args[r].fn = "test"
    /\ LET l == Listing(dirs[args[r].logs])
       IN  IF l.ok
           THEN /\ logs_folder' = [logs_folder EXCEPT ![r] = l.id]
                /\ Goto(r, "mkdir_logs")
           ELSE /\ Fail(r, "ValueError")
                /\ UNCHANGED logs_folder
    /\ existed' = [existed EXCEPT ![r] =
                      IF pc[r] = "start" THEN AllRunDirs(dirs) ELSE @]
    /\ UNCHANGED <<fsVars, args, checkpoints_folder, trainVars, testVars, stepVars,
                   seen, hist, created, wrote, accVars>>

\* train, lines 63-68; test, lines 190-196
MkdirLogs(r) ==
    /\ pc[r] = "mkdir_logs"
    /\ LET p == args[r].logs
           name == StrOf(logs_folder[r])
       IN  IF MkdirOk(dirs[p], name)
           THEN /\ dirs' = [dirs EXCEPT ![p] = @ \cup {name}]
                /\ created' = [created EXCEPT ![r] = @ \cup {<<p, name>>}]
                /\ IF args[r].fn = "train"
                   THEN /\ best_loss' = [best_loss EXCEPT ![r] = Frac(BestLossInit, 1)]
                        /\ best_epoch' = [best_epoch EXCEPT ![r] = 0]
                        /\ epoch' = [epoch EXCEPT ![r] = 0]
                        /\ Goto(r, "epoch")
                        /\ UNCHANGED <<test_loss, test_mvct>>
                   ELSE /\ test_loss' = [test_loss EXCEPT ![r] = Frac(0, Unit)]
                        /\ test_mvct' = [test_mvct EXCEPT ![r] = ZeroMvct(args[r].metrics)]
                        /\ Goto(r, "test_pass")
                        /\ UNCHANGED <<best_loss, best_epoch, epoch>>
           ELSE /\ Fail(r, "FileExistsError")
                /\ UNCHANGED <<dirs, created, best_loss, best_epoch, epoch,
                               test_loss, test_mvct>>
    /\ batch' = [batch EXCEPT ![r] = 0]
    /\ UNCHANGED <<ckpts, logfiles, args, allocVars, train_loss, valid_loss,
                   train_mvct, valid_mvct, retval, weights, sched,
                   seen, hist, wrote, existed, accVars>>

(***************************************************************************)
(* train: the epoch loop.                                                  *)
(***************************************************************************)
NoBatches == [train |-> <<>>, valid |-> <<>>, test |-> <<>>]

\* lines 70-76
EpochStart(r) ==
    /\ pc[r] = "epoch" /\ epoch[r] < args[r].epochs
    /\ train_loss' = [train_loss EXCEPT ![r] = Frac(0, Unit)]
    /\ valid_loss' = [valid_loss EXCEPT ![r] = Frac(0, Unit)]
    /\ train_mvct' = [train_mvct EXCEPT ![r] = ZeroMvct(args[r].metrics)]
    /\ valid_mvct' = [valid_mvct EXCEPT ![r] = ZeroMvct(args[r].metrics)]
    /\ batch' = [batch EXCEPT ![r] = 0]
    /\ seen' = [seen EXCEPT ![r] = NoBatches]
    /\ Goto(r, "train_pass")
    /\ UNCHANGED <<fsVars, args, allocVars, epoch, best_loss, best_epoch, testVars,
                   weights, sched, hist, created, wrote, existed, accVars>>

\* lines 78-96: one batch of the training pass
TrainBatch(r) ==
    /\ pc[r] = "train_pass" /\ batch[r] < args[r].nTrain
    /\ \E b \in TrainBatches :
        /\ train_mvct' = [train_mvct EXCEPT ![r] = AddMetrics(@, args[r].metrics, b)]
        /\ train_loss' = [train_loss EXCEPT ![r] = AddLoss(@, b)]
        /\ seen' = [seen EXCEPT ![r].train = Append(@, b)]
    /\ weights' = [weights EXCEPT ![r] = @ + 1]
    /\ batch' = [batch EXCEPT ![r] = IF @ + 1 = args[r].nTrain THEN 0 ELSE @ + 1]
    /\ Goto(r, IF batch[r] + 1 = args[r].nTrain THEN "valid_pass" ELSE "train_pass")
    /\ UNCHANGED <<fsVars, args, allocVars, epoch, best_loss, best_epoch, valid_loss,
                   valid_mvct, testVars, sched, hist, created, wrote, existed, accVars>>

\* a variant whose validation batches also step the optimizer
ValidBatchStepsOptimizer(r) ==
    /\ pc[r] = "valid_pass" /\ batch[r] < args[r].nValid
    /\ \E b \in ValidBatches :
        /\ valid_mvct' = [valid_mvct EXCEPT ![r] = AddMetrics(@, args[r].metrics, b)]
        /\ valid_loss' = [valid_loss EXCEPT ![r] = AddLoss(@, b)]
        /\ seen' = [seen EXCEPT ![r].valid = Append(@, b)]
    /\ weights' = [weights EXCEPT ![r] = @ + 1]
    /\ batch' = [batch EXCEPT ![r] = IF @ + 1 = args[r].nValid THEN 0 ELSE @ + 1]
    /\ Goto(r, IF batch[r] + 1 = args[r].nValid THEN "average" ELSE "valid_pass")
    /\ UNCHANGED <<fsVars, args, allocVars, epoch, best_loss, best_epoch, train_loss,
                   train_mvct, testVars, sched, hist, created, wrote,
                   existed, accVars>>

\* lines 98-114: one batch of the validation pass
ValidBatch(r) ==
    /\ pc[r] = "valid_pass" /\ batch[r] < args[r].nValid
    /\ \E b \in ValidBatches :
        /\ valid_mvct' = [valid_mvct EXCEPT ![r] = AddMetrics(@, args[r].metrics, b)]
        /\ valid_loss' = [valid_loss EXCEPT ![r] = AddLoss(@, b)]
        /\ seen' = [seen EXCEPT ![r].valid = Append(@, b)]
    /\ batch' = [batch EXCEPT ![r] = IF @ + 1 = args[r].nValid THEN 0 ELSE @ + 1]
    /\ Goto(r, IF batch[r] + 1 = args[r].nValid THEN "average" ELSE "valid_pass")
    /\ UNCHANGED <<fsVars, args, allocVars, epoch, best_loss, best_epoch, train_loss,
                   train_mvct, testVars, weights, sched, hist, created, wrote,
                   existed, accVars>>

\* lines 116-119
Average(r) ==
    /\ pc[r] = "average"
    /\ train_mvct' = [train_mvct EXCEPT ![r] = DivMvct(@, TrainLen(args[r]))]
    /\ valid_mvct' = [valid_mvct EXCEPT ![r] = DivMvct(@, ValidLen(args[r]))]
    /\ train_loss' = [train_loss EXCEPT ![r] = DivLoss(@, TrainLen(args[r]))]
    /\ valid_loss' = [valid_loss EXCEPT ![r] = DivLoss(@, ValidLen(args[r]))]
    /\ Goto(r, "checkpoint")
    /\ UNCHANGED <<fsVars, args, allocVars, epoch, best_loss, best_epoch, testVars,
                   stepVars, histVars, accVars>>

\* lines 121-129
Checkpoint(r) ==
    /\ pc[r] = "checkpoint"
    /\ LET d == CkptDir(r)
           e == epoch[r]
           vl == valid_loss[r]
           per == Periodic(e, args[r].save_every, args[r].epochs)
           imp == Improved(vl, best_loss[r])
           c1 == IF per THEN SaveFile(ckpts, d, PlanName(e, vl), weights[r]) ELSE ckpts
           c2 == IF imp THEN SaveFile(c1, d, BestTmpName, weights[r]) ELSE c1
       IN  /\ ckpts' = c2
           /\ best_epoch' = [best_epoch EXCEPT ![r] = IF imp THEN e ELSE @]
           /\ best_loss' = [best_loss EXCEPT ![r] = IF imp THEN vl ELSE @]
           /\ wrote' = [wrote EXCEPT ![r] = IF per \/ imp THEN @ \cup {d} ELSE @]
    /\ hist' = [hist EXCEPT ![r] =
                   Append(@, [train |-> seen[r].train, valid |-> seen[r].valid,
                              weights |-> weights[r]])]
    /\ Goto(r, "log")
    /\ UNCHANGED <<dirs, logfiles, args, allocVars, epoch, train_loss, valid_loss,
                   train_mvct, valid_mvct, testVars, stepVars, seen, created,
                   existed, accVars>>

\* lines 131-151
LogAppend(r) ==
    /\ pc[r] = "log"
    /\ logfiles' = AppendFile(logfiles, LogDir(r), "trainval.log",
                       EpochText(epoch[r], args[r].epochs, train_loss[r], valid_loss[r],
                                 args[r].metrics, train_mvct[r], valid_mvct[r]))
    /\ wrote' = [wrote EXCEPT ![r] = @ \cup {LogDir(r)}]
    /\ Goto(r, "sched")
    /\ UNCHANGED <<dirs, ckpts, args, allocVars, trainVars, testVars, stepVars,
                   seen, hist, created, existed, accVars>>

\* lines 153-154, and the step of the for loop of line 70
SchedulerStep(r) ==
    /\ pc[r] = "sched"
    /\ sched' = [sched EXCEPT ![r] = @ + 1]
    /\ epoch' = [epoch EXCEPT ![r] = @ + 1]
    /\ Goto(r, "epoch")
    /\ UNCHANGED <<fsVars, args, allocVars, best_loss, best_epoch, train_loss,
                   valid_loss, train_mvct, valid_mvct, testVars, batch, weights,
                   histVars, accVars>>

\* line 155, after the loop
RenameBest(r) ==
    /\ pc[r] = "epoch" /\ epoch[r] = args[r].epochs
    /\ LET d == CkptDir(r)
       IN  IF FileExists(ckpts, d, BestTmpName)
           THEN /\ ckpts' = RenameFile(ckpts, d, BestTmpName,
                                       BestName(best_epoch[r], best_loss[r]))
                /\ wrote' = [wrote EXCEPT ![r] = @ \cup {d}]
                /\ Goto(r, "done")
           ELSE /\ Fail(r, "FileNotFoundError")
                /\ UNCHANGED <<ckpts, wrote>>
    /\ UNCHANGED <<dirs, logfiles, args, allocVars, trainVars, testVars, stepVars,
                   seen, hist, created, existed, accVars>>

(***************************************************************************)
(* test: one pass and the summary line.                                    *)
(***************************************************************************)
\* lines 198-213: one batch of the test pass
TestBatch(r) ==
    /\ pc[r] = "test_pass" /\ batch[r] < args[r].nTest
    /\ \E b \in TestBatches :
        /\ test_mvct' = [test_mvct EXCEPT ![r] = AddMetrics(@, args[r].metrics, b)]
        /\ test_loss' = [test_loss EXCEPT ![r] = AddLoss(@, b)]
        /\ seen' = [seen EXCEPT ![r].test = Append(@, b)]
    /\ batch' = [batch EXCEPT ![r] = IF @ + 1 = args[r].nTest THEN 0 ELSE @ + 1]
    /\ Goto(r, IF batch[r] + 1 = args[r].nTest THEN "summary" ELSE "test_pass")
    /\ UNCHANGED <<fsVars, args, allocVars, trainVars, retval, weights, sched,
                   hist, created, wrote, existed, accVars>>

\* lines 215-228
TestSummary(r) ==
    /\ pc[r] = "summary"
    /\ LET mv == DivMvct(test_mvct[r], args[r].nTest)
           tl == DivLoss(test_loss[r], args[r].nTest)
       IN  /\ test_mvct' = [test_mvct EXCEPT ![r] = mv]
           /\ test_loss' = [test_loss EXCEPT ![r] = tl]
           /\ logfiles' = AppendFile(logfiles, LogDir(r), "test.log",
                                     TestText(tl, args[r].metrics, mv))
    /\ wrote' = [wrote EXCEPT ![r] = @ \cup {LogDir(r)}]
    /\ retval' = [retval EXCEPT ![r] = LogDir(r)]
    /\ Goto(r, "done")
    /\ UNCHANGED <<dirs, ckpts, args, allocVars, trainVars, stepVars,
                   seen, hist, created, existed, accVars>>

RunStep(r) ==
    \/ ListCheckpoints(r)
    \/ MkdirCheckpoints(r)
    \/ ListLogs(r)
    \/ MkdirLogs(r)
    \/ EpochStart(r)
    \/ TrainBatch(r)
    \/ ValidBatch(r)
    \/ Average(r)
    \/ Checkpoint(r)
    \/ LogAppend(r)
    \/ SchedulerStep(r)
    \/ RenameBest(r)
    \/ TestBatch(r)
    \/ TestSummary(r)

Next == \E r \in Runs : RunStep(r)

(***************************************************************************)
(* accuracy.calc.  A tensor is [rank, v]: v is a sequence of numbers       *)
(* (rank 1) or a sequence of rows (rank 2).                                *)
(***************************************************************************)
Shape(t) == IF t.rank = 1 THEN <<Len(t.v)>> ELSE <<Len(t.v), Len(t.v[1])>>

\* index (0-based) of the first largest element of a row
ArgMaxRow(row) ==
    (CHOOSE i \in 1..Len(row) :
        /\ \A j \in 1..Len(row) : row[j] <= row[i]
        /\ \A j \in 1..(i - 1) : row[j] < row[i]) - 1

\* t.argmax(dim=1) of a rank-2 tensor
ArgMaxDim1(t) == [rank |-> 1, v |-> [i \in 1..Len(t.v) |-> ArgMaxRow(t.v[i])]]

\* t.unsqueeze(1) of a rank-1 tensor
Unsqueeze1(t) == [rank |-> 2, v |-> [i \in 1..Len(t.v) |-> <<t.v[i]>>]]

RECURSIVE Product(_)
Product(sh) == IF sh = <<>> THEN 1 ELSE Head(sh) * Product(Tail(sh))

\* (preds == labels).sum() for two rank-1 tensors of one length
EqualCount(p, l) == Cardinality({i \in 1..Len(l.v) : p.v[i] = l.v[i]})

\* accuracy.calc(preds, labels), lines 2-18
Calc(preds, labels) ==
    LET shapes == Shape(preds)
        lshape == Shape(labels)
        p1 == IF Len(shapes) = Len(lshape) /\ shapes[2] # lshape[2]
              THEN Unsqueeze1(ArgMaxDim1(preds))
              ELSE IF Len(shapes) > Len(lshape) THEN ArgMaxDim1(preds) ELSE preds
        p2 == IF Len(lshape) = 2 THEN ArgMaxDim1(p1) ELSE p1
        l2 == IF Len(lshape) = 2 THEN ArgMaxDim1(labels) ELSE labels
        np == Product(Shape(l2))
    IN  Frac(EqualCount(p2, l2), np)

\* one call of accuracy.calc
CalcStep ==
    /\ a_pc = "call"
    /\ a_out' = Calc(a_preds, a_labels)
    /\ a_pc' = "returned"
    /\ UNCHANGED <<a_preds, a_labels, fsVars, runVars>>

NextAcc == CalcStep

(***************************************************************************)
(* Initial states: the parents' contents and the calls that are made.      *)
(***************************************************************************)
NoCall ==
    [fn |-> "none", epochs |-> 0, save_every |-> 1, metrics |-> <<>>,
     checkpoints |-> "checkpoints", logs |-> "logs",
     nTrain |-> 0, nValid |-> 0, nTest |-> 0]

Max2(a, b) == IF a < b THEN b ELSE a

\* calls of train(train_dataloader, valid_dataloader, ..., metrics, epochs,
\* checkpoints, logs, device, save_every, ...)
TrainCalls(E, K, M, N, P) ==
    {[fn |-> "train", epochs |-> e, save_every |-> k,
      metrics |-> SubSeq(MetricNames, 1, m),
      checkpoints |-> p, logs |-> "logs",
      nTrain |-> nt, nValid |-> nv, nTest |-> 0] :
        e \in E, k \in K, m \in M, nt \in N, nv \in N, p \in P}

\* calls of test(test_dataloader, model, loss_fn, metrics, logs, ...)
TestCalls(M, N) ==
    {[fn |-> "test", epochs |-> 0, save_every |-> 1,
      metrics |-> SubSeq(MetricNames, 1, m),
      checkpoints |-> "checkpoints", logs |-> "logs",
      nTrain |-> 0, nValid |-> 0, nTest |-> nt] : m \in M, nt \in N}

WithinWork(a) == a.epochs * Max2(a.nTrain, a.nValid) <= MaxWork

AllCalls ==
    {a \in TrainCalls(1..MaxEpochs, 1..MaxSaveEvery, 0..MaxMetrics, 1..MaxBatches,
                      {"checkpoints"}) : WithinWork(a)}
        \cup TestCalls(0..MaxMetrics, 1..MaxBatches)

ShortCalls ==
    TrainCalls({1}, {1}, {0, 1}, {1}, Parents) \cup TestCalls({0, 1}, {1})

PairCalls ==
    TrainCalls({1}, {1}, {1}, {1}, Parents) \cup TestCalls({0, 1}, {1})

E0 == <<"0">>
E1 == <<"1">>
E2 == <<"2">>
E9 == <<"9">>
E01 == <<"0", "1">>
E10 == <<"1", "0">>
EX == <<"x">>
E1A == <<"1", "a">>

EntrySets ==
    {{}, {E0}, {E0, E1}, {E0, E1, E2}, {E2}, {E01}, {E1, E01}, {E9}, {E2, E10},
     {E0, EX}, {E1A}}

DirsFew ==
    {[checkpoints |-> {E0, E1}, logs |-> {E9}],
     [checkpoints |-> {E0, EX}, logs |-> {}],
     [checkpoints |-> {}, logs |-> {E1A}]}

DirsAll == {[checkpoints |-> c, logs |-> l] : c \in EntrySets, l \in EntrySets}

DirsShared ==
    {[checkpoints |-> c, logs |-> l] : c \in {{}, {E0}}, l \in {{}, {E0, E01}}}

InitWith(active, calls, D) ==
    /\ dirs \in D
    /\ ckpts = {}
    /\ logfiles = {}
    /\ args \in {a \in [Runs -> calls \cup {NoCall}] :
                    \A r \in Runs : (a[r] = NoCall) <=> (r \notin active)}
    /\ pc = [r \in Runs |-> IF r \in active THEN "start" ELSE "idle"]
    /\ err = [r \in Runs |-> "none"]
    /\ checkpoints_folder = [r \in Runs |-> -1]
    /\ logs_folder = [r \in Runs |-> -1]
    /\ epoch = [r \in Runs |-> 0]
    /\ best_loss = [r \in Runs |-> Frac(0, 1)]
    /\ best_epoch = [r \in Runs |-> 0]
    /\ train_loss = [r \in Runs |-> Frac(0, 1)]
    /\ valid_loss = [r \in Runs |-> Frac(0, 1)]
    /\ train_mvct = [r \in Runs |-> <<>>]
    /\ valid_mvct = [r \in Runs |-> <<>>]
    /\ test_loss = [r \in Runs |-> Frac(0, 1)]
    /\ test_mvct = [r \in Runs |-> <<>>]
    /\ batch = [r \in Runs |-> 0]
    /\ weights = [r \in Runs |-> 0]
    /\ sched = [r \in Runs |-> 0]
    /\ retval = [r \in Runs |-> <<>>]
    /\ seen = [r \in Runs |-> NoBatches]
    /\ hist = [r \in Runs |-> <<>>]
    /\ created = [r \in Runs |-> {}]
    /\ wrote = [r \in Runs |-> {}]
    /\ existed = [r \in Runs |-> {}]

AccOff ==
    /\ a_preds = <<>>
    /\ a_labels = <<>>
    /\ a_out = <<>>
    /\ a_pc = "off"

\* one call of train or test
Init == InitWith({1}, AllCalls, DirsFew) /\ AccOff

\* one short call, any contents of the parents
InitAlloc == InitWith({1}, ShortCalls, DirsAll) /\ AccOff

\* two short calls on the same parents, their steps interleaved
InitRuns == InitWith(Runs, PairCalls, DirsShared) /\ AccOff

\* predictions of shape B x C and labels as class indices (B), as a column of
\* class indices (B x 1) or as one-hot rows (B x C)
Scores == {0, 1}

PredsOf(B, C) == {[rank |-> 2, v |-> v] : v \in [1..B -> [1..C -> Scores]]}

OneHot(c, C) == [k \in 1..C |-> IF k = c + 1 THEN 1 ELSE 0]

LabelsOf(B, C) ==
    UNION {{[rank |-> 1, v |-> cls],
            [rank |-> 2, v |-> [i \in 1..B |-> <<cls[i]>>]],
            [rank |-> 2, v |-> [i \in 1..B |-> OneHot(cls[i], C)]]} :
              cls \in [1..B -> 0..(C - 1)]}

InitAcc ==
    /\ InitWith({}, {}, {[checkpoints |-> {}, logs |-> {}]})
    /\ \E B \in 1..MaxSamples, C \in 2..MaxClasses :
          /\ a_preds \in PredsOf(B, C)
          /\ a_labels \in LabelsOf(B, C)
    /\ a_out = Frac(0, 1)
    /\ a_pc = "call"

Spec == Init /\ [][Next]_vars

SpecAcc == InitAcc /\ [][NextAcc]_vars

SpecAlloc == InitAlloc /\ [][Next]_vars

SpecRuns == InitRuns /\ [][Next]_vars

(***************************************************************************)
(* Properties.                                                             *)
(***************************************************************************)
Active == {r \in Runs : args[r].fn # "none"}

\* the parent a run lists first, and the parent its current allocation step is about
ParentAt(r) ==
    IF pc[r] \in {"list_logs", "mkdir_logs"} \/ args[r].fn = "test"
    THEN args[r].logs ELSE args[r].checkpoints

IdsOf(entries) == {IntOf(s) : s \in entries}

\* n is the id the allocator is to pick for a parent holding these entries
IsNextIdOf(n, entries) ==
    /\ \A i \in IdsOf(entries) : i < n
    /\ entries = {} => n = 0
    /\ entries # {} => n - 1 \in IdsOf(entries)

\* a step in which run r lists a parent whose entries all have integer names
ListStepOk(r) ==
    (pc[r] \in {"start", "list_logs"} /\ pc'[r] # pc[r]
        /\ ListingOk(dirs[ParentAt(r)]))
    => /\ pc'[r] \in {"mkdir_ckpt", "mkdir_logs"}
       /\ dirs' = dirs

\* a step in which run r makes its directory in such a parent
MkdirStepOk(r) ==
    (pc[r] \in {"mkdir_ckpt", "mkdir_logs"} /\ pc'[r] # pc[r]
        /\ ListingOk(dirs[ParentAt(r)]))
    => LET p == ParentAt(r)
           new == dirs'[p] \ dirs[p]
       IN  /\ pc'[r] # "failed"
           /\ Cardinality(new) = 1
           /\ dirs[p] \subseteq dirs'[p]
           /\ \A q \in Parents \ {p} : dirs'[q] = dirs[q]
           /\ \A s \in new :
                /\ IsIntName(s)
                /\ s = StrOf(IntOf(s))
                /\ IsNextIdOf(IntOf(s), dirs[p])
                /\ created'[r] = created[r] \cup {<<p, s>>}
                /\ IF pc[r] = "mkdir_ckpt"
                   THEN checkpoints_folder'[r] = IntOf(s)
                   ELSE logs_folder'[r] = IntOf(s)

\* every file of the run lies in a directory the run made
UsesOwnDirs ==
    \A r \in Active :
        /\ wrote[r] \subseteq created[r]
        /\ \A f \in ckpts : f.dir \in created[r]
        /\ \A f \in logfiles : f.dir \in created[r]

\* C1: in a parent whose entries all have integer names the allocator makes
\* exactly one new subdirectory, named max(existing)+1 (0 when the parent is
\* empty), strictly above every id present, and the run uses that path.
C1_AllocatesNextId ==
    /\ [](UsesOwnDirs)
    /\ [][\A r \in Runs : ListStepOk(r) /\ MkdirStepOk(r)]_vars

\* a train run that got checkpoints/3 next to {0,1,2} and logs/11 next to {2,10}
C1_Witness ==
    \E r \in Active :
        /\ <<"checkpoints", <<"3">>>> \in created[r]
        /\ <<"logs", <<"1", "1">>>> \in created[r]
        /\ wrote[r] = created[r]

\* C8: a run whose parent holds an entry with a non-integer name fails with an
\* uncaught error before any batch is processed, makes no subdirectory in
\* that parent and writes no checkpoint or log file.
C8_JunkEntryFailsEarly ==
    \A r \in Active :
        LET first == IF args[r].fn = "train" THEN args[r].checkpoints ELSE args[r].logs
            badFirst == ~ListingOk(dirs[first])
            badLogs == ~ListingOk(dirs[args[r].logs])
            untouched(p) == dirs[p] = {x[2] : x \in {y \in existed[r] : y[1] = p}}
            nothingDone ==
                /\ pc[r] = "failed" /\ err[r] = "ValueError"
                /\ wrote[r] = {} /\ ckpts = {} /\ logfiles = {}
                /\ weights[r] = 0 /\ sched[r] = 0 /\ batch[r] = 0
                /\ seen[r] = NoBatches /\ hist[r] = <<>>
        IN  /\ (badFirst /\ pc[r] # "start")
                => (nothingDone /\ untouched(first))
            /\ (badLogs /\ pc[r] \notin {"start", "mkdir_ckpt", "list_logs"})
                => (nothingDone /\ untouched(args[r].logs))

\* a train run that made its checkpoint directory and then failed on the logs parent
C8_Witness ==
    \E r \in Active :
        /\ args[r].fn = "train"
        /\ err[r] = "ValueError"
        /\ created[r] # {}
        /\ ~ListingOk(dirs[args[r].logs])

(***************************************************************************)
(* What the history of a run says its files should hold.                   *)
(***************************************************************************)
RECURSIVE SumLoss(_)
SumLoss(bs) == IF bs = <<>> THEN 0 ELSE LossOf(Head(bs)) + SumLoss(Tail(bs))

RECURSIVE SumMetric(_, _)
SumMetric(m, bs) ==
    IF bs = <<>> THEN 0 ELSE MetricOf(m, Head(bs)) + SumMetric(m, Tail(bs))

\* mean loss and mean metric value over the batches bs
MeanLoss(bs) == Frac(SumLoss(bs), Unit * Len(bs))
MeanMetric(m, bs) == Frac(SumMetric(m, bs), Unit * Len(bs))

TrainRuns == {r \in Active : args[r].fn = "train"}
TestRuns == {r \in Active : args[r].fn = "test"}

HasCkptDir(r) ==
    /\ checkpoints_folder[r] >= 0
    /\ <<args[r].checkpoints, StrOf(checkpoints_folder[r])>> \in created[r]

HasLogDir(r) ==
    /\ logs_folder[r] >= 0
    /\ <<args[r].logs, StrOf(logs_folder[r])>> \in created[r]

CkptNames(r) == {f.name : f \in {g \in ckpts : g.dir = CkptDir(r)}}
BestFiles(r) == {f \in ckpts : f.dir = CkptDir(r) /\ f.name[1] = "best"}
PlanNames(r) == {n \in CkptNames(r) : n[1] = "plan"}

LogText(r, name) ==
    IF \E f \in logfiles : f.dir = LogDir(r) /\ f.name = name
    THEN (CHOOSE f \in logfiles : f.dir = LogDir(r) /\ f.name = name).text
    ELSE <<>>

\* validation loss of the k-th epoch that reached its checkpoint decision
ValidLossAt(r, k) == MeanLoss(hist[r][k].valid)

\* the first epoch (1-based) among the first n with the least validation loss
FirstMin(r, n) ==
    CHOOSE k \in 1..n :
        /\ \A j \in 1..n : ~FracLess(ValidLossAt(r, j), ValidLossAt(r, k))
        /\ \A j \in 1..(k - 1) : FracLess(ValidLossAt(r, k), ValidLossAt(r, j))

\* train is over: it returned, or its last statement raised
TrainEnded(r) ==
    \/ pc[r] = "done"
    \/ pc[r] = "failed" /\ err[r] = "FileNotFoundError"

InLoop(r) ==
    pc[r] \in {"epoch", "train_pass", "valid_pass", "average", "checkpoint", "log", "sched"}

\* C2: after train, for every E >= 1 and every sequence of validation losses,
\* the checkpoint directory holds exactly one file best_*, none named
\* best.pt, and its name carries the least validation loss of the run (two
\* decimals) and the first epoch that reached it.
C2_OneBestAfterTrain ==
    \A r \in TrainRuns :
        TrainEnded(r) =>
            LET k == FirstMin(r, args[r].epochs)
            IN  /\ Len(hist[r]) = args[r].epochs
                /\ Cardinality(BestFiles(r)) = 1
                /\ \A f \in BestFiles(r) :
                     f.name = <<"best", k - 1, Fmt2(ValidLossAt(r, k))[1],
                                Fmt2(ValidLossAt(r, k))[2]>>

\* C3 as stated: from the start of the loop until train exits exactly one
\* best checkpoint file exists.
C3_ExactlyOneBestAlways ==
    \A r \in TrainRuns : InLoop(r) => Cardinality(BestFiles(r)) = 1

\* C3 as amended: at most one best checkpoint file exists at any time: none
\* until an epoch with a validation loss below the initial best_loss has made
\* its checkpoint decision, exactly one from then on; it is best.pt, holding
\* the weights of the first epoch with the least loss so far (overwritten
\* only by a strictly lower loss), and it is renamed to best_{epoch}_{loss}.pt
\* only at the end, after the last epoch.
C3_AtMostOneBest ==
    \A r \in TrainRuns :
        HasCkptDir(r) =>
            LET n == Len(hist[r])
                any == \E j \in 1..n :
                          FracLess(ValidLossAt(r, j), Frac(BestLossInit, 1))
            IN  /\ Cardinality(BestFiles(r)) = IF any THEN 1 ELSE 0
                /\ \A f \in BestFiles(r) :
                     LET k == FirstMin(r, n)
                     IN  /\ f.weights = hist[r][k].weights
                         /\ IF pc[r] = "done"
                            THEN /\ n = args[r].epochs
                                 /\ f.name = <<"best", k - 1,
                                               Fmt2(ValidLossAt(r, k))[1],
                                               Fmt2(ValidLossAt(r, k))[2]>>
                            ELSE f.name = <<"best">>

\* best.pt was written in the first epoch, kept through a tie in the second
\* and overwritten in the third
C3_Witness ==
    \E r \in TrainRuns :
        /\ pc[r] = "log" /\ Len(hist[r]) = 3
        /\ FracEq(ValidLossAt(r, 1), ValidLossAt(r, 2))
        /\ FracLess(ValidLossAt(r, 3), ValidLossAt(r, 2))
        /\ \E f \in BestFiles(r) : f.name = <<"best">> /\ f.weights = hist[r][3].weights

\* C4: a periodic checkpoint plan_{e}_{valid_loss}.pt exists for epoch e
\* exactly when save_every divides e or e is the last epoch E-1, whatever
\* the best loss did.
C4_PeriodicCheckpoints ==
    \A r \in TrainRuns :
        HasCkptDir(r) =>
            /\ TrainEnded(r) => Len(hist[r]) = args[r].epochs
            /\ PlanNames(r) =
                 {<<"plan", e, Fmt2(ValidLossAt(r, e + 1))[1], Fmt2(ValidLossAt(r, e + 1))[2]>> :
                    e \in {i \in 0..(Len(hist[r]) - 1) :
                             i % args[r].save_every = 0 \/ i = args[r].epochs - 1}}

\* three epochs with save_every = 3: saved for 0 and for 2 (the last, not a
\* multiple of 3), not for 1, and epoch 2 did not improve the best loss
C4_Witness ==
    \E r \in TrainRuns :
        /\ pc[r] = "done" /\ args[r].epochs = 3 /\ args[r].save_every = 3
        /\ {n[2] : n \in PlanNames(r)} = {0, 2}
        /\ best_epoch[r] = 0

\* number of epochs whose log record has been written
Logged(r) == IF pc[r] = "sched" THEN epoch[r] + 1 ELSE epoch[r]

\* the line the log is to hold for the j-th epoch: every field, then the line end
EpochLine(r, j) ==
    LET ms == args[r].metrics
        h == hist[r][j]
    IN  <<Tok("epoch", "", Frac(j, args[r].epochs)),
          Tok("train loss", "", MeanLoss(h.train)),
          Tok("valid loss", "", MeanLoss(h.valid))>>
        \o [i \in 1..Len(ms) |-> Tok("train_", ms[i], MeanMetric(ms[i], h.train))]
        \o [i \in 1..Len(ms) |-> Tok("valid_", ms[i], MeanMetric(ms[i], h.valid))]
        \o <<NL>>

RECURSIVE EpochLines(_, _)
EpochLines(r, n) == IF n = 0 THEN <<>> ELSE EpochLines(r, n - 1) \o EpochLine(r, n)

\* C5: for every E and every list of metrics, of any length, trainval.log is
\* the only file of the run's log directory and after epoch i it holds
\* exactly i+1 newline-terminated lines, line j starting with 'epoch: j/E'
\* and listing train loss, valid loss, the metrics' train averages and their
\* valid averages in registration order; written lines never change.
C5_OneLinePerEpoch ==
    \A r \in TrainRuns :
        HasLogDir(r) =>
            /\ \A f \in logfiles : f.dir = LogDir(r) => f.name = "trainval.log"
            /\ LogText(r, "trainval.log") = EpochLines(r, Logged(r))

SameValue(t, f) == FracEq(Frac(t.num, t.den), f)

\* C6: every logged loss and metric value is the sum of the per-batch values
\* of that epoch's pass (training, validation or test) divided by the number
\* N of its batches, nothing carried over from another epoch or pass, and
\* the i-th value is reported under the name of the i-th registered metric.
C6_LoggedMeans ==
    /\ \A r \in TrainRuns :
         HasLogDir(r) =>
            LET ms == args[r].metrics
                m == Len(ms)
                text == LogText(r, "trainval.log")
                L == 3 + 2 * m + (IF m > 0 THEN 1 ELSE 0)
            IN  /\ Len(text) = Logged(r) * L
                /\ \A j \in 1..Logged(r) :
                     LET base == (j - 1) * L
                         h == hist[r][j]
                     IN  /\ Len(h.train) = args[r].nTrain
                         /\ Len(h.valid) = args[r].nValid
                         /\ text[base + 2].pre = "train loss"
                         /\ SameValue(text[base + 2], MeanLoss(h.train))
                         /\ text[base + 3].pre = "valid loss"
                         /\ SameValue(text[base + 3], MeanLoss(h.valid))
                         /\ \A i \in 1..m :
                              /\ text[base + 3 + i].pre = "train_"
                              /\ text[base + 3 + i].name = ms[i]
                              /\ SameValue(text[base + 3 + i], MeanMetric(ms[i], h.train))
                              /\ text[base + 3 + m + i].pre = "valid_"
                              /\ text[base + 3 + m + i].name = ms[i]
                              /\ SameValue(text[base + 3 + m + i], MeanMetric(ms[i], h.valid))
    /\ \A r \in TestRuns :
         pc[r] = "done" =>
            LET ms == args[r].metrics
                text == LogText(r, "test.log")
                bs == seen[r].test
            IN  /\ Len(bs) = args[r].nTest
                /\ Len(text) >= 1 + Len(ms)
                /\ text[1].pre = "test loss"
                /\ SameValue(text[1], MeanLoss(bs))
                /\ \A i \in 1..Len(ms) :
                     /\ text[1 + i].name = ms[i]
                     /\ SameValue(text[1 + i], MeanMetric(ms[i], bs))

\* two epochs logged with two metrics, loaders of different lengths, and
\* different batches in the two validation passes
C6_Witness ==
    \E r \in TrainRuns :
        /\ Logged(r) = 2 /\ Len(args[r].metrics) = 2
        /\ args[r].nTrain = 1 /\ args[r].nValid = 2
        /\ hist[r][1].valid = <<"easy", "hard">>
        /\ hist[r][2].valid = <<"hard", "hard">>
        /\ Len(LogText(r, "trainval.log")) = 16

\* the class a label row stands for: the index itself, or the arg-max of a one-hot row
LabelClass(labels, i) ==
    IF labels.rank = 1 THEN labels.v[i]
    ELSE IF Len(labels.v[i]) = 1 THEN labels.v[i][1]
    ELSE ArgMaxRow(labels.v[i])

Matches(preds, labels) ==
    Cardinality({i \in 1..Len(preds.v) : ArgMaxRow(preds.v[i]) = LabelClass(labels, i)})

\* C7: for predictions B x C and labels given as class indices (B or B x 1)
\* or as one-hot rows (B x C), calc returns the number of samples whose
\* arg-max class equals the label class divided by the number of samples, a
\* value in [0, 1].
C7_AccuracyIsMatchFraction ==
    a_pc = "returned" =>
        /\ FracEq(a_out, Frac(Matches(a_preds, a_labels), Len(a_preds.v)))
        /\ 0 <= a_out.num /\ a_out.num <= a_out.den

\* C9: every call of test makes its own new numbered subdirectory, distinct
\* from all earlier ones, writes exactly one summary line to test.log in it
\* for every list of metrics, returns its path, steps no optimizer or
\* scheduler and writes no checkpoint; two calls that saw the same batches
\* with the same metrics write the same line.
C9_TestWritesOneLine ==
    \A r \in TestRuns :
        pc[r] = "done" =>
            LET ms == args[r].metrics
                bs == seen[r].test
            IN  /\ retval[r] = LogDir(r)
                /\ LogDir(r) \in created[r] \ existed[r]
                /\ \A q \in Active \ {r} : LogDir(r) \notin created[q]
                /\ \A f \in logfiles : f.dir = LogDir(r) => f.name = "test.log"
                /\ LogText(r, "test.log") =
                     <<Tok("test loss", "", MeanLoss(bs))>>
                     \o [i \in 1..Len(ms) |-> Tok("", ms[i], MeanMetric(ms[i], bs))]
                     \o <<NL>>
                /\ weights[r] = 0 /\ sched[r] = 0
                /\ \A f \in ckpts : f.dir \notin created[r]
                /\ \A q \in TestRuns :
                     (pc[q] = "done" /\ args[q].metrics = ms /\ seen[q].test = bs)
                        => LogText(q, "test.log") = LogText(r, "test.log")

\* C10: two runs on the same parents, one after the other or with their
\* listing and mkdir steps interleaved, never write into the same numbered
\* subdirectory, and a run writes only into directories it made itself,
\* none of which existed before it started.
C10_RunIsolation ==
    /\ \A r \in Active :
         /\ wrote[r] \subseteq created[r]
         /\ created[r] \cap existed[r] = {}
         /\ \A f \in ckpts : f.dir \in created[r] => f.dir = CkptDir(r)
         /\ \A f \in logfiles : f.dir \in created[r] => f.dir = LogDir(r)
    /\ \A r, q \in Active : r # q => created[r] \cap created[q] = {}
    /\ \A f \in ckpts : \E r \in Active : f.dir \in wrote[r]
    /\ \A f \in logfiles : \E r \in Active : f.dir \in wrote[r]

\* both runs listed the logs parent before either made its directory: they
\* computed the same id, one made the directory and wrote its log, the other
\* failed in mkdir
C10_Witness ==
    \E r, q \in Active :
        /\ r # q
        /\ args[r].logs = args[q].logs
        /\ logs_folder[r] = logs_folder[q] /\ logs_folder[r] >= 0
        /\ pc[r] = "done" /\ LogDir(r) \in wrote[r]
        /\ pc[q] = "failed" /\ err[q] = "FileExistsError"

(***************************************************************************)
(* Order of the steps of an epoch; optimizer and scheduler steps.          *)
(***************************************************************************)
\* the steps of train after allocation, in program order
EpochOrder ==
    {<<"epoch", "train_pass">>, <<"train_pass", "valid_pass">>,
     <<"valid_pass", "average">>, <<"average", "checkpoint">>,
     <<"checkpoint", "log">>, <<"log", "sched">>, <<"sched", "epoch">>,
     <<"epoch", "done">>, <<"epoch", "failed">>}

\* number of epoch records in trainval.log
EpochRecords(r) ==
    LET text == LogText(r, "trainval.log")
    IN  Cardinality({i \in DOMAIN text : text[i].pre = "epoch"})

\* optimizer steps there are to be: one per training batch handled so far
OptimizerStepsDue(r) ==
    IF pc[r] = "train_pass" THEN epoch[r] * args[r].nTrain + batch[r]
    ELSE IF pc[r] \in {"valid_pass", "average", "checkpoint", "log", "sched"}
         THEN (epoch[r] + 1) * args[r].nTrain
         ELSE epoch[r] * args[r].nTrain

\* epochs whose checkpoint decision has been taken
Decided(r) == IF pc[r] \in {"log", "sched"} THEN epoch[r] + 1 ELSE epoch[r]

StepCounts(r) ==
    /\ weights[r] = OptimizerStepsDue(r)
    /\ sched[r] = epoch[r]
    /\ Len(hist[r]) = Decided(r)
    /\ EpochRecords(r) = Logged(r)
    /\ sched[r] <= EpochRecords(r)
    /\ TrainEnded(r) =>
          /\ weights[r] = args[r].epochs * args[r].nTrain
          /\ sched[r] = args[r].epochs

\* every checkpoint file holds the weights as they were after the last
\* optimizer step of the epoch it was saved in
CheckpointWeights(r) ==
    /\ \A k \in 1..Len(hist[r]) : hist[r][k].weights = k * args[r].nTrain
    /\ \A f \in ckpts :
          f.dir = CkptDir(r) =>
            f.weights = (IF f.name[1] = "plan" THEN f.name[2] + 1 ELSE best_epoch[r] + 1)
                            * args[r].nTrain

OrderedStep(r) ==
    /\ pc'[r] # pc[r] => <<pc[r], pc'[r]>> \in EpochOrder
    /\ weights'[r] # weights[r] =>
          /\ pc[r] = "train_pass" /\ weights'[r] = weights[r] + 1
          /\ batch'[r] = (batch[r] + 1) % args[r].nTrain
    /\ pc[r] = "train_pass" => weights'[r] # weights[r]
    /\ sched'[r] # sched[r] =>
          /\ pc[r] = "sched" /\ sched'[r] = sched[r] + 1
          /\ EpochRecords(r) = sched[r] + 1
    /\ pc[r] = "sched" => sched'[r] # sched[r]
    /\ EpochRecords(r)' # EpochRecords(r) =>
          pc[r] = "log" /\ EpochRecords(r)' = EpochRecords(r) + 1
    /\ ckpts' # ckpts => pc[r] \in {"checkpoint", "epoch"}

\* C11: in every epoch of train the steps come in the order training pass,
\* validation pass, averaging, checkpoint decision, log append, scheduler
\* step; the optimizer is stepped once per training batch and never in the
\* validation pass, the scheduler once per epoch and only after the epoch's
\* log record is written, so that E epochs make E * len(train_dataloader)
\* optimizer steps and E scheduler steps, and a checkpoint saved in an
\* epoch holds the weights after that epoch's last optimizer step.
C11_StepOrder ==
    /\ [](\A r \in TrainRuns :
            (InLoop(r) \/ TrainEnded(r)) => (StepCounts(r) /\ CheckpointWeights(r)))
    /\ [][\A r \in TrainRuns :
            InLoop(r) => OrderedStep(r)]_vars

\* a finished run of two epochs of two training batches: four optimizer
\* steps, two scheduler steps, the plan files of epochs 0 and 1 holding the
\* weights after two and after four optimizer steps
C11_Witness ==
    \E r \in TrainRuns :
        /\ pc[r] = "done" /\ args[r].epochs = 2 /\ args[r].nTrain = 2
        /\ args[r].nValid = 2
        /\ weights[r] = 4 /\ sched[r] = 2 /\ EpochRecords(r) = 2
        /\ {<<f.name[2], f.weights>> :
               f \in {g \in ckpts : g.dir = CkptDir(r) /\ g.name[1] = "plan"}}
             = {<<0, 2>>, <<1, 4>>}

(***************************************************************************)
(* The two run directories of train.                                       *)
(***************************************************************************)
\* the entries parent p held when run r started
EntriesBefore(r, p) == {x[2] : x \in {y \in existed[r] : y[1] = p}}

\* the call raised while allocating its run directories
FailedInAllocation(r) ==
    pc[r] = "failed" /\ err[r] \in {"ValueError", "FileExistsError"}

\* C12: a train run owns a numbered checkpoint directory and a numbered log
\* directory; a call that has made a subdirectory in the checkpoints parent
\* makes one in the logs parent too, and a call that fails during the
\* allocation (as when the logs parent holds a non-integer entry) leaves
\* both parent directories as they were.
C12_PairedRunDirs ==
    \A r \in TrainRuns :
        /\ FailedInAllocation(r) => \A p \in Parents : dirs[p] = EntriesBefore(r, p)
        /\ pc[r] \in {"failed", "done"} => (HasCkptDir(r) <=> HasLogDir(r))

====
